---- MODULE Spec2Model ----
(***************************************************************************)
(* Model of detect_encoding.py: detect_encoding(file_path, **kwargs) and   *)
(* attempt_decode(text, codec).                                            *)
(*                                                                         *)
(* A file is a UTF-8 byte-order mark flag plus a sequence of lines.  A     *)
(* line is described by what the two library calls of the program look at: *)
(*   cookie : the codec named by a "# -*- coding: X -*-" comment, or       *)
(*            "none";                                                      *)
(*   blank  : the line is empty or a comment (tokenize's blank_re);        *)
(*   bytes  : the class of the bytes of the line,                          *)
(*              "ascii" every byte below 0x80,                             *)
(*              "utf8"  ASCII plus the UTF-8 sequence C3 A9,               *)
(*              "xE9"   ASCII plus a lone byte E9 (ill-formed UTF-8,       *)
(*                      defined in cp1252),                                *)
(*              "x81"   ASCII plus a lone byte 81 (ill-formed UTF-8,       *)
(*                      undefined in cp1252).                              *)
(* The interpreter is assumed to pass the version assertion of line 88.    *)
(***************************************************************************)
EXTENDS Integers, Sequences, FiniteSets, TLC

\* ---------------------------------------------------------------- bounds
MaxLines == 2
MaxPasses == 2

\* ------------------------------------------------------------- constants
\* Candidate list: a subsequence of the source's CODECS, in the source's
\* order (entries 1, 3, 4, 46, 53 and 69 of the 98).
CODECS == <<"ascii", "utf-8-sig", "utf-8", "cp1252", "cp65001", "latin-1">>

None == "None"

CookieNames == {"none", "utf-8", "latin-1", "bogus"}
ByteClasses == {"ascii", "utf8", "xE9", "x81"}

\* A cookie stands in a comment, so its line is blank for tokenize; the
\* cookie lines of the catalogue are pure ASCII or carry a lone byte E9.
Lines ==
  {l \in [cookie : CookieNames, blank : BOOLEAN, bytes : ByteClasses] :
     l.cookie # "none" => (l.blank /\ l.bytes \in {"ascii", "xE9"})}

RECURSIVE SeqsUpTo(_, _)
SeqsUpTo(S, n) ==
  IF n = 0 THEN {<<>>}
  ELSE LET shorter == SeqsUpTo(S, n - 1)
       IN  shorter \cup {Append(s, x) : s \in {t \in shorter : Len(t) = n - 1}, x \in S}

Files == [bom : BOOLEAN, lines : SeqsUpTo(Lines, MaxLines)]

\* The codecs of the list the runtime can look up: all of them; all but
\* cp65001 (CPython 3.7 off Windows); and a runtime with none of the codecs
\* that accept every byte string, which is what makes the case of lines
\* 122-136 in which every candidate fails reachable (CPython itself always
\* has latin-1).
Runtimes ==
  << {"ascii", "utf-8-sig", "utf-8", "cp1252", "cp65001", "latin-1"},
     {"ascii", "utf-8-sig", "utf-8", "cp1252", "latin-1"},
     {"ascii", "utf-8-sig", "utf-8", "cp1252"} >>

\* params['size'] is <<>> for None and <<s>> for a ceiling of s/10000 MB.
SizeOptions == {<<>>, <<10000>>, <<20000>>}
GetSizes == {0, 40, 32768, 1048576, 1048600, 3145728}

VARIABLES
  file,            \* the file at file_path
  getsize,         \* os.path.getsize(file_path), bytes
  installed,       \* codecs the runtime can look up
  optimize,        \* interpreter run with -O (assert statements removed)
  params,          \* [full_check, size, verbose]
  pc,              \* position in detect_encoding
  codec_known,
  detected_codec,
  token,           \* outcome of tokenize.detect_encoding
  contents,        \* bytes read at lines 115-120, or None
  idx,             \* position of the for loop in CODECS
  passes,          \* completed passes of the for loop
  attempts,        \* calls of attempt_decode, in order
  output,          \* lines printed, in order
  opens,           \* number of open() calls
  error,           \* exception leaving detect_encoding, or None
  result           \* returned value, or None

vars == <<file, getsize, installed, optimize, params, pc, codec_known,
          detected_codec, token, contents, idx, passes, attempts, output,
          opens, error, result>>

env == <<file, getsize, installed, optimize, params>>

\* ------------------------------------------------- file size (line 90)
MB == 1048576

\* round(getsize / 1048576, 4), in units of 0.0001 MB; round() rounds an
\* exact half to the even neighbour.  bytes * 10000 / MB is computed as
\* bytes * 625 / (MB / 16), which stays within 32 bits.
FileSize(bytes) ==
  LET d == MB \div 16
      q == (bytes * 625) \div d
      r == (bytes * 625) % d
  IN  IF 2 * r < d THEN q
      ELSE IF 2 * r > d THEN q + 1
      ELSE IF q % 2 = 0 THEN q ELSE q + 1

SizeConfigured_never(size) == FALSE

\* line 92: params['size'] is not None
SizeConfigured(size) == size # <<>>

\* line 93: the condition of the assert statement
AssertCondition(file_size, size) == file_size < size[1]

\* ------------------------------------- tokenize.detect_encoding (line 100)
InvalidOrMissing == "invalid or missing encoding declaration for"
UnknownEncoding == "unknown encoding for"
EncodingProblem == "encoding problem for"

\* tokenize._get_normal_name
get_normal_name(enc) ==
  IF enc = "utf-8" THEN "utf-8"
  ELSE IF enc = "latin-1" THEN "iso-8859-1"
  ELSE enc

\* codecs.lookup succeeds
lookup(encoding) ==
  \/ encoding = "utf-8" /\ "utf-8" \in installed
  \/ encoding = "iso-8859-1" /\ "latin-1" \in installed

\* tokenize.detect_encoding.find_cookie: [raised, encoding]
find_cookie(line, bom_found) ==
  IF line.bytes \notin {"ascii", "utf8"}
    THEN [raised |-> InvalidOrMissing, encoding |-> None]
  ELSE IF line.cookie = "none"
    THEN [raised |-> None, encoding |-> None]
  ELSE LET encoding == get_normal_name(line.cookie)
       IN  IF ~lookup(encoding)
             THEN [raised |-> UnknownEncoding, encoding |-> None]
           ELSE IF bom_found
             THEN IF encoding # "utf-8"
                    THEN [raised |-> EncodingProblem, encoding |-> None]
                    ELSE [raised |-> None, encoding |-> "utf-8-sig"]
           ELSE [raised |-> None, encoding |-> encoding]

\* tokenize.detect_encoding(file.readline): [raised, encoding]
tokenize_detect_encoding(f) ==
  LET default == IF f.bom THEN "utf-8-sig" ELSE "utf-8"
      found(name) == [raised |-> None, encoding |-> name]
  IN  IF Len(f.lines) = 0 THEN found(default)
      ELSE LET first == find_cookie(f.lines[1], f.bom)
           IN  IF first.raised # None THEN first
               ELSE IF first.encoding # None THEN first
               ELSE IF ~f.lines[1].blank THEN found(default)
               ELSE IF Len(f.lines) = 1 THEN found(default)
               ELSE LET second == find_cookie(f.lines[2], f.bom)
                    IN  IF second.raised # None THEN second
                        ELSE IF second.encoding # None THEN second
                        ELSE found(default)

\* line 104: 'invalid or missing encoding declaration for' in str(err) is False
\* A chained comparison: (phrase in str(err)) and (str(err) is False); a str
\* object is never the object False.
PhraseInMessage(msg) == msg = InvalidOrMissing
MessageIsFalse(msg) == FALSE
ReRaises(msg) == PhraseInMessage(msg) /\ MessageIsFalse(msg)

\* --------------------------------------------------- bytes.decode(codec)
\* The bytes of the text are well-formed in the codec.
Decodes(text, codec) ==
  CASE codec = "ascii" ->
         ~text.bom /\ \A i \in 1..Len(text.lines) : text.lines[i].bytes = "ascii"
    [] codec \in {"utf-8-sig", "utf-8", "cp65001"} ->
         \A i \in 1..Len(text.lines) : text.lines[i].bytes \in {"ascii", "utf8"}
    [] codec = "cp1252" ->
         \A i \in 1..Len(text.lines) : text.lines[i].bytes \in {"ascii", "utf8", "xE9"}
    [] codec = "latin-1" -> TRUE

\* What text.decode(codec) raises (line 162), or None.
decode(text, codec) ==
  IF codec \notin installed THEN "LookupError"
  ELSE IF Decodes(text, codec) THEN None
  ELSE "UnicodeDecodeError"

\* ------------------------------------------- attempt_decode (lines 143-170)
\* lines 166-167: the except clause handles UnicodeDecodeError alone.
ExceptClause(raised) == IF raised = "UnicodeDecodeError" THEN None ELSE raised

\* lines 169-170: a return in the finally block discards the exception that
\* is being propagated.
FinallyReturn(pending) == None

\* [value, raised]: the value returned and the exception leaving the call.
attempt_decode(text, codec) ==
  LET raised == decode(text, codec)
      codec_found == (raised = None)
  IN  [value |-> codec_found, raised |-> FinallyReturn(ExceptClause(raised))]

\* ------------------------------------------------ reading (lines 115-120)
readline(f) ==
  [bom |-> f.bom, lines |-> SubSeq(f.lines, 1, IF Len(f.lines) = 0 THEN 0 ELSE 1)]

read(f) == [bom |-> f.bom, lines |-> f.lines]

ReadContents(f, full_check) == IF full_check THEN read(f) ELSE readline(f)

\* ------------------------------------------------------------ printing
Printed(kind, codec, ok) == [kind |-> kind, codec |-> codec, ok |-> ok]

\* lines 107-109
NoCookieBanner(verbose) ==
  IF verbose
    THEN <<Printed("BRIGHT", None, FALSE), Printed("No encoding cookie present", None, FALSE)>>
    ELSE <<>>

AttemptLine_success_only(verbose, codec, known) ==
  IF verbose /\ known THEN <<Printed("attempt", codec, known)>> ELSE <<>>

\* lines 126-131
AttemptLine(verbose, codec, known) ==
  IF verbose THEN <<Printed("attempt", codec, known)>> ELSE <<>>

\* line 138
ResetLine == <<Printed("RESET_ALL", None, FALSE)>>

\* ------------------------------------------------------- control flow
LoopTest_always(known) == TRUE

\* line 122: while codec_known is False
LoopTest(known) == known = FALSE

\* line 123: the for loop starts at the first entry of CODECS
FirstIndex == 1

\* line 123: the for loop moves to the next entry
NextIndex(i) == i + 1

Breaks_never(known) == FALSE

\* lines 133-136: a successful attempt leaves the for loop
Breaks(known) == known

AfterLastCandidate_gives_up == "raised"

\* line 123 after the last entry: control returns to the while test
AfterLastCandidate == "while"

\* token before line 100 has run
NotScanned == [raised |-> None, encoding |-> None]

\* ------------------------------------------------------------- initial
InitEnv ==
  \/ /\ \E r \in 1..Len(Runtimes) : installed = Runtimes[r]
     /\ file \in Files
     /\ params \in [full_check : BOOLEAN, size : {<<>>}, verbose : BOOLEAN]
     /\ optimize = FALSE
     /\ getsize = IF file.lines = <<>> /\ ~file.bom THEN 0 ELSE 40
  \/ /\ installed = Runtimes[1]
     /\ file \in Files
     /\ Len(file.lines) <= 1
     /\ params \in [full_check : BOOLEAN, size : SizeOptions \ {<<>>}, verbose : BOOLEAN]
     /\ optimize \in BOOLEAN
     /\ getsize \in GetSizes
     /\ (getsize = 0) <=> (file.lines = <<>> /\ ~file.bom)

\* lines 74-88
Init ==
  /\ InitEnv
  /\ pc = "guard"
  /\ codec_known = FALSE
  /\ detected_codec = None
  /\ token = NotScanned
  /\ contents = None
  /\ idx = 0
  /\ passes = 0
  /\ attempts = <<>>
  /\ output = <<>>
  /\ opens = 0
  /\ error = None
  /\ result = None

\* -------------------------------------------------- lines 90-94: size guard
SizeGuardSkip ==
  /\ pc = "guard"
  /\ ~SizeConfigured(params.size)
  /\ pc' = "scan"
  /\ UNCHANGED <<env, codec_known, detected_codec, token, contents, idx, passes,
                 attempts, output, opens, error, result>>

SizeGuardAssert ==
  /\ pc = "guard"
  /\ SizeConfigured(params.size)
  /\ ~optimize
  /\ ~AssertCondition(FileSize(getsize), params.size)
  /\ pc' = "raised"
  /\ error' = "AssertionError"
  /\ UNCHANGED <<env, codec_known, detected_codec, token, contents, idx, passes,
                 attempts, output, opens, result>>

SizeGuardExit ==
  /\ pc = "guard"
  /\ SizeConfigured(params.size)
  /\ optimize \/ AssertCondition(FileSize(getsize), params.size)
  /\ pc' = "raised"
  /\ error' = "SystemExit"
  /\ UNCHANGED <<env, codec_known, detected_codec, token, contents, idx, passes,
                 attempts, output, opens, result>>

\* ------------------------------------------ lines 96-113: encoding cookie
ScanFound ==
  /\ pc = "scan"
  /\ LET t == tokenize_detect_encoding(file)
     IN  /\ t.raised = None
         /\ token' = t
         /\ detected_codec' = t.encoding
         /\ codec_known' = TRUE
  /\ opens' = opens + 1
  /\ pc' = "read"
  /\ UNCHANGED <<env, contents, idx, passes, attempts, output, error, result>>

ScanSyntaxError ==
  /\ pc = "scan"
  /\ LET t == tokenize_detect_encoding(file)
     IN  /\ t.raised # None
         /\ token' = t
         /\ IF ReRaises(t.raised)
              THEN /\ pc' = "raised"
                   /\ error' = "SyntaxError"
                   /\ output' = output
              ELSE /\ pc' = "read"
                   /\ error' = error
                   /\ output' = output \o NoCookieBanner(params.verbose)
  /\ opens' = opens + 1
  /\ UNCHANGED <<env, codec_known, detected_codec, contents, idx, passes, attempts, result>>

\* ------------------------------------------------------- lines 115-120
Read ==
  /\ pc = "read"
  /\ contents' = ReadContents(file, params.full_check)
  /\ opens' = opens + 1
  /\ pc' = "while"
  /\ UNCHANGED <<env, codec_known, detected_codec, token, idx, passes, attempts,
                 output, error, result>>

\* ------------------------------------------------------- lines 122-136
WhileEnter ==
  /\ pc = "while"
  /\ LoopTest(codec_known)
  /\ passes < MaxPasses
  /\ idx' = FirstIndex
  /\ pc' = "for"
  /\ UNCHANGED <<env, codec_known, detected_codec, token, contents, passes, attempts,
                 output, opens, error, result>>

Attempt ==
  /\ pc = "for"
  /\ LET codec == CODECS[idx]
         r == attempt_decode(contents, codec)
     IN  IF r.raised # None
           THEN /\ pc' = "raised"
                /\ error' = r.raised
                /\ UNCHANGED <<codec_known, detected_codec, idx, passes, attempts, output>>
           ELSE /\ codec_known' = r.value
                /\ attempts' = Append(attempts, [codec |-> codec, ok |-> r.value])
                /\ output' = output \o AttemptLine(params.verbose, codec, r.value)
                /\ error' = error
                /\ IF Breaks(r.value)
                     THEN /\ detected_codec' = codec
                          /\ pc' = "while"
                          /\ UNCHANGED <<idx, passes>>
                     ELSE /\ detected_codec' = detected_codec
                          /\ IF NextIndex(idx) <= Len(CODECS)
                               THEN /\ idx' = NextIndex(idx)
                                    /\ pc' = "for"
                                    /\ passes' = passes
                               ELSE /\ idx' = idx
                                    /\ pc' = AfterLastCandidate
                                    /\ passes' = passes + 1
  /\ UNCHANGED <<env, token, contents, opens, result>>

\* ------------------------------------------------------- lines 138-140
Return ==
  /\ pc = "while"
  /\ ~LoopTest(codec_known)
  /\ output' = output \o ResetLine
  /\ result' = detected_codec
  /\ pc' = "done"
  /\ UNCHANGED <<env, codec_known, detected_codec, token, contents, idx, passes,
                 attempts, opens, error>>

Next ==
  \/ SizeGuardSkip
  \/ SizeGuardAssert
  \/ SizeGuardExit
  \/ ScanFound
  \/ ScanSyntaxError
  \/ Read
  \/ WhileEnter
  \/ Attempt
  \/ Return

Spec == Init /\ [][Next]_vars

\* =================================================================
\* Properties
\* =================================================================
N == Len(CODECS)

\* the bytes the call hands to the decoder
Sample == ReadContents(file, params.full_check)

\* index in CODECS of the first codec that decodes the text, 0 if none does
FirstDecoding(text) ==
  IF \E i \in 1..N : decode(text, CODECS[i]) = None
    THEN CHOOSE i \in 1..N :
           /\ decode(text, CODECS[i]) = None
           /\ \A j \in 1..(i - 1) : decode(text, CODECS[j]) # None
    ELSE 0

AllFail(text) == FirstDecoding(text) = 0

\* no byte-order mark and no coding cookie on any line
NoDeclaration(f) ==
  ~f.bom /\ \A i \in 1..Len(f.lines) : f.lines[i].cookie = "none"

\* the line that carries the declaration: line 1, or line 2 after a blank or
\* comment line; 0 if there is none
DeclLine(f) ==
  IF Len(f.lines) >= 1 /\ f.lines[1].cookie # "none" THEN 1
  ELSE IF Len(f.lines) >= 2 /\ f.lines[1].blank /\ f.lines[2].cookie # "none" THEN 2
  ELSE 0

Declared(f) == f.lines[DeclLine(f)].cookie

\* the declaration names a codec the runtime knows
DeclaresRealCodec(f) ==
  /\ DeclLine(f) > 0
  /\ \/ Declared(f) = "utf-8" /\ "utf-8" \in installed
     \/ Declared(f) = "latin-1" /\ "latin-1" \in installed

CanonicalName(declared) == IF declared = "latin-1" THEN "iso-8859-1" ELSE declared

SizeCeilingSet == params.size # <<>>
ExceedsCeiling == SizeCeilingSet /\ FileSize(getsize) > params.size[1]
Aborted == pc = "raised" /\ error \in {"AssertionError", "SystemExit"}

\* C1: a file without a declaration yields the first codec of CODECS that
\* decodes the sampled bytes.
C1_FirstDecodingCodecReturned ==
  (pc = "done" /\ NoDeclaration(file)) =>
     /\ FirstDecoding(Sample) > 0
     /\ result = CODECS[FirstDecoding(Sample)]

\* C2 (as stated): a file whose leading lines declare a real codec yields
\* the declared codec, and attempt_decode is never called.
C2_DeclaredCodecReturned ==
  DeclaresRealCodec(file) =>
     /\ attempts = <<>>
     /\ pc = "done" => result = CanonicalName(Declared(file))

\* the scanner accepts the declaration: the lines it reads up to the cookie
\* are valid UTF-8 and a byte-order mark comes only with a utf-8 cookie
ScannerAccepts(f) ==
  /\ DeclaresRealCodec(f)
  /\ \A i \in 1..DeclLine(f) : f.lines[i].bytes \in {"ascii", "utf8"}
  /\ f.bom => Declared(f) = "utf-8"

\* C2 (amended): when the scanner accepts the declaration the call returns
\* the scanner's name for it (the normalised name, utf-8-sig after a
\* byte-order mark) and attempt_decode is never called.
C2_AcceptedDeclarationReturned ==
  ScannerAccepts(file) =>
     /\ attempts = <<>>
     /\ ~SizeCeilingSet => pc # "raised"
     /\ pc = "done" =>
          result = IF file.bom THEN "utf-8-sig" ELSE CanonicalName(Declared(file))

C2_Witness ==
  /\ pc = "done"
  /\ ScannerAccepts(file)
  /\ Declared(file) = "latin-1"
  /\ Len(file.lines) >= 2
  /\ file.lines[Len(file.lines)].bytes = "x81"

\* C3: the size guard aborts iff a ceiling is set and the file exceeds it.
C3_AbortIffExceeds ==
  pc # "guard" => (Aborted <=> ExceedsCeiling)

\* C4: a SyntaxError of the scanner other than the invalid-or-missing one
\* leaves detect_encoding; no decode attempt follows it.
C4_OtherSyntaxErrorPropagates ==
  token.raised \notin {None, InvalidOrMissing} =>
     /\ pc = "raised"
     /\ error = "SyntaxError"
     /\ attempts = <<>>

\* C5: when the scanner found nothing and no codec of CODECS decodes the
\* bytes, the call neither returns nor raises: every pass fails entry by
\* entry, the next pass starts again at the first entry, and codec_known,
\* detected_codec and the contents stay as they were.
C5_AllFailLoopsForever ==
  (pc \notin {"guard", "scan"} /\ token.raised # None /\ AllFail(Sample)) =>
     /\ pc \in {"read", "while", "for"}
     /\ codec_known = FALSE
     /\ detected_codec = None
     /\ error = None
     /\ result = None
     /\ pc # "read" => contents = Sample
     /\ \A j \in 1..Len(attempts) :
          attempts[j] = [codec |-> CODECS[((j - 1) % N) + 1], ok |-> FALSE]
     /\ pc = "for" => Len(attempts) = passes * N + (idx - 1)
     /\ pc = "while" => Len(attempts) = passes * N

C5_Witness ==
  /\ token.raised # None
  /\ AllFail(Sample)
  /\ pc = "for"
  /\ Len(attempts) = N + 1

\* C6: when the file exceeds the ceiling the call aborts before the file is
\* opened and before any call of attempt_decode.
C6_AbortBeforeDecode ==
  (ExceedsCeiling /\ pc # "guard") =>
     /\ Aborted
     /\ attempts = <<>>
     /\ opens = 0
     /\ output = <<>>

C6_Witness == ExceedsCeiling /\ pc = "raised" /\ Len(file.lines) > 0

\* C7: for a file without a declaration whose first line decodes first
\* under c while the whole file does not decode under c, the call returns c
\* when full_check is false and a codec after c when full_check is true.
C7_FirstLineVersusWholeFile ==
  (/\ pc = "done"
   /\ NoDeclaration(file)
   /\ Len(file.lines) >= 2
   /\ FirstDecoding(readline(file)) > 0
   /\ decode(read(file), CODECS[FirstDecoding(readline(file))]) # None) =>
     LET k == FirstDecoding(readline(file))
     IN  IF params.full_check
           THEN \E j \in (k + 1)..N : result = CODECS[j]
           ELSE result = CODECS[k]

\* C8: attempt_decode returns true when decode raises nothing, false when
\* it raises UnicodeDecodeError, and lets every other error propagate.
C8_OnlyDecodeErrorCaught ==
  \A j \in 1..Len(attempts) :
     LET d == decode(contents, attempts[j].codec)
     IN  /\ d = None => attempts[j].ok
         /\ d = "UnicodeDecodeError" => ~attempts[j].ok
         /\ d \in {None, "UnicodeDecodeError"}

\* C9: candidates are attempted in CODECS order from the first entry, a
\* failure is followed by the next candidate, nothing is attempted after a
\* success, and when entry k is the first that decodes the bytes exactly k
\* attempts are made.
C9_OrderedFirstMatch ==
  /\ \A j \in 1..Len(attempts) :
       /\ attempts[j].codec = CODECS[((j - 1) % N) + 1]
       /\ j < Len(attempts) => ~attempts[j].ok
  /\ (pc = "for" /\ idx > 1) => ~attempts[Len(attempts)].ok
  /\ (pc \in {"while", "for", "done"} /\ token.raised # None /\ ~AllFail(Sample)) =>
       LET k == FirstDecoding(Sample)
       IN  /\ Len(attempts) <= k
           /\ pc = "for" => Len(attempts) = idx - 1
           /\ pc = "done" => Len(attempts) = k /\ attempts[k].ok /\ result = CODECS[k]

C9_Witness ==
  /\ pc = "done"
  /\ token.raised # None
  /\ FirstDecoding(Sample) = 4
  /\ Len(attempts) = 4

\* the line each attempt prints in verbose mode
AttemptLines ==
  [j \in 1..Len(attempts) |-> Printed("attempt", attempts[j].codec, attempts[j].ok)]

\* what the call has printed apart from the reset at the end
Diagnostics == SelectSeq(output, LAMBDA p : p.kind # "RESET_ALL")

\* C10 (as stated): in verbose mode the diagnostics are exactly one line per
\* attempt, in attempt order; the scanning step prints none; without
\* verbose there is none.
C10_OnlyAttemptLines ==
  Diagnostics = IF params.verbose THEN AttemptLines ELSE <<>>

\* C10 (amended): in verbose mode the call prints, in order, the two banner
\* lines of the scanner's exception handler when the scanner raised, one
\* line per attempt with the codec and its outcome, and the reset line at
\* return; without verbose it prints the reset line only.
C10_BannerThenAttemptLines ==
  output =
    (IF params.verbose /\ token.raised # None /\ pc # "raised"
       THEN <<Printed("BRIGHT", None, FALSE),
              Printed("No encoding cookie present", None, FALSE)>>
       ELSE <<>>)
    \o (IF params.verbose THEN AttemptLines ELSE <<>>)
    \o (IF pc = "done" THEN <<Printed("RESET_ALL", None, FALSE)>> ELSE <<>>)

C10_Witness ==
  /\ pc = "done"
  /\ params.verbose
  /\ token.raised # None
  /\ Len(attempts) >= 4
  /\ Len(output) = Len(attempts) + 3

====
